---- MODULE Spec2Model ----
(***************************************************************************)
(* Model of the 4D rotor algebra core of the VIB3+ SDK:                    *)
(*   cpp/math/Rotor4D.{hpp,cpp}, cpp/math/Mat4x4.{hpp,cpp}, Vec4.          *)
(*                                                                         *)
(* Arithmetic is exact (float rounding is abstracted to real arithmetic).  *)
(*   - A Vec4 is a record [x,y,z,w,d]: the vector (x,y,z,w)/d, d > 0.      *)
(*   - A Mat4x4 is a record [data,d]: data is the column-major array of    *)
(*     the source as a 16-tuple (element (row,col) of the source's         *)
(*     data[col*4+row] is data[col*4+row+1] here, tuples being 1-based),   *)
(*     every entry divided by d > 0.                                       *)
(*   - A Rotor4D is a record [s,xy,xz,yz,xw,yw,zw,xyzw,k]: the eight       *)
(*     components of the source, every one divided by sqrt(k), k > 0.      *)
(*     sqrt(k) is what std::sqrt / std::cos / std::sin introduce           *)
(*     (magnitude(), half angles of odd quarter turns); products of two    *)
(*     components are rational again, so matrices and vectors stay exact.  *)
(*   - An angle is an integer q standing for q * pi/2 radians.             *)
(***************************************************************************)
EXTENDS Integers, Sequences, FiniteSets, TLC

VARIABLES
    pc,      \* "idle", or the operation whose result the out* variables hold
    a, b, c, \* rotor operands of the operation
    v,       \* vector operand
    plane,   \* RotationPlane operand
    angle,   \* angle operand, in quarter turns
    angles,  \* the six angles of fromEuler6 / rotationFromAngles, in quarter turns
    outr,    \* rotor result
    outv,    \* vector result
    outm,    \* matrix result
    t,       \* interpolation parameter, in halves (t stands for t/2)
    mat,     \* matrix operand
    lo, hi,  \* vector operands of clamp
    outb,    \* boolean result
    acosArg, \* the argument slerp passed to std::acos, or NoAcos
    size,    \* vib3_process_command_batch: size of the command buffer
    offset,  \* ... its local offset
    result_offset, \* ... its local result_offset
    results, \* ... the bytes written to the results buffer, from index 0
    decoded, \* ... the number of type bytes read so far
    readIdx, \* ... the index of the last read of commands[], -1 before the first
    cmd_type, \* ... its local cmd_type, -1 before the first read
    outn     \* scalar result, the rational n/d

vars == <<pc, a, b, c, v, plane, angle, angles, outr, outv, outm, t, mat, lo, hi,
          outb, acosArg, size, offset, result_offset, results, decoded, readIdx, cmd_type, outn>>

(***************************************************************************)
(* Bounds of the model                                                     *)
(***************************************************************************)
MaxComp == 1        \* rotor inputs have integer components in -MaxComp..MaxComp
MaxTerms == 2       \* ... and at most MaxTerms non-zero components
MaxQuarter == 5     \* single-plane angles range over -3..MaxQuarter quarter turns
MaxEulerQuarter == 2 \* fromEuler6 angles range over -1..MaxEulerQuarter quarter turns
MaxBatch == 10      \* command buffers have 0..MaxBatch bytes

(***************************************************************************)
(* Vec4                                                                    *)
(***************************************************************************)
Vec4(x, y, z, w) == [x |-> x, y |-> y, z |-> z, w |-> w, d |-> 1]

unitX == Vec4(1, 0, 0, 0)
unitY == Vec4(0, 1, 0, 0)
unitZ == Vec4(0, 0, 1, 0)
unitW == Vec4(0, 0, 0, 1)
zeroVec == Vec4(0, 0, 0, 0)

\* Equality of the rational vectors two records stand for
VecEq(p, q) ==
    /\ p.x * q.d = q.x * p.d
    /\ p.y * q.d = q.y * p.d
    /\ p.z * q.d = q.z * p.d
    /\ p.w * q.d = q.w * p.d

\* Vec4::dot / Vec4::lengthSquared: numerator over d*d
dot(p, q) == [n |-> p.x * q.x + p.y * q.y + p.z * q.z + p.w * q.w, d |-> p.d * q.d]
lengthSquared(p) == dot(p, p)
RatEq(p, q) == p.n * q.d = q.n * p.d

\* The smaller and the larger of the rationals x/dx and y/dy, over dx * dy
\* (std::min(a, b) is b when b < a, else a; std::max(a, b) is b when a < b, else a)
MinR(x, dx, y, dy) == IF y * dx < x * dy THEN y * dx ELSE x * dy
MaxR(x, dx, y, dy) == IF x * dy < y * dx THEN y * dx ELSE x * dy

\* Vec4::min, Vec4::max
vecMin(p, q) ==
    [x |-> MinR(p.x, p.d, q.x, q.d), y |-> MinR(p.y, p.d, q.y, q.d),
     z |-> MinR(p.z, p.d, q.z, q.d), w |-> MinR(p.w, p.d, q.w, q.d), d |-> p.d * q.d]
vecMax(p, q) ==
    [x |-> MaxR(p.x, p.d, q.x, q.d), y |-> MaxR(p.y, p.d, q.y, q.d),
     z |-> MaxR(p.z, p.d, q.z, q.d), w |-> MaxR(p.w, p.d, q.w, q.d), d |-> p.d * q.d]

\* A clamp that takes the minimum first: max(minVal, min(maxVal, this))
clamp_minFirst(p, minVal, maxVal) == vecMax(minVal, vecMin(maxVal, p))

\* Vec4::clamp: this->max(minVal).min(maxVal)
clamp(p, minVal, maxVal) == vecMin(vecMax(p, minVal), maxVal)

\* Vec4::projectOnto: other * (dot(other) / d) when d = other.dot(other) > 0,
\* else Vec4::zero().  For p = (..)/p.d and other = (..)/o.d the quotient
\* dot(other) / d is (n1 * o.d) / (p.d * n2), n1 and n2 the two numerators
projectOnto(p, other) ==
    LET n1 == dot(p, other).n
        n2 == dot(other, other).n
    IN IF n2 > 0
       THEN [x |-> other.x * n1, y |-> other.y * n1, z |-> other.z * n1, w |-> other.w * n1,
             d |-> p.d * n2]
       ELSE zeroVec

\* The vector p / sqrt(k), k > 0: a Vec4 record with the extra field k
OverSqrt(p, k) == [x |-> p.x, y |-> p.y, z |-> p.z, w |-> p.w, d |-> p.d, k |-> k]

\* A normalized() that divides by lengthSquared() instead of length()
vecNormalized_byLengthSquared(p) ==
    LET n == lengthSquared(p).n
    IN IF n > 0 THEN OverSqrt(Vec4(p.x, p.y, p.z, p.w), n * n) ELSE OverSqrt(zeroVec, 1)

\* Vec4::normalized: *this / length() when length() > 0, else Vec4::zero().
\* length() is sqrt(n)/d for lengthSquared() = n/d^2, so the quotient is (x,y,z,w)/sqrt(n)
vecNormalized(p) ==
    LET n == lengthSquared(p).n
    IN IF n > 0 THEN OverSqrt(Vec4(p.x, p.y, p.z, p.w), n) ELSE OverSqrt(zeroVec, 1)

\* Vec4::normalize (in place): *this /= length() when length() > 0, else unchanged
vecNormalize(p) ==
    LET n == lengthSquared(p).n
    IN IF n > 0 THEN OverSqrt(Vec4(p.x, p.y, p.z, p.w), n) ELSE OverSqrt(p, 1)

(***************************************************************************)
(* Mat4x4 (column-major: element (row, col) is data[col*4 + row + 1])      *)
(***************************************************************************)
Idx == 1..16
at(m, row, col) == m.data[col * 4 + row + 1]

\* Mat4x4::Mat4x4(): data{} is zero-initialized
Mat4x4Default == [data |-> <<0, 0, 0, 0, 0, 0, 0, 0, 0, 0, 0, 0, 0, 0, 0, 0>>, d |-> 1]

\* Mat4x4::Mat4x4(float diagonal)
Mat4x4Diagonal(diag) ==
    [data |-> <<diag, 0, 0, 0, 0, diag, 0, 0, 0, 0, diag, 0, 0, 0, 0, diag>>, d |-> 1]

MatIdentity == Mat4x4Diagonal(1)
MatZero == Mat4x4Default

\* m.at(row, col) = val
SetAt(m, row, col, val) == [m EXCEPT !.data[col * 4 + row + 1] = val]

\* Mat4x4::column
column(m, col) ==
    [x |-> m.data[col * 4 + 1], y |-> m.data[col * 4 + 2],
     z |-> m.data[col * 4 + 3], w |-> m.data[col * 4 + 4], d |-> m.d]

\* Mat4x4::operator*(const Vec4&)
MatMulVec(m, p) ==
    [x |-> at(m, 0, 0) * p.x + at(m, 0, 1) * p.y + at(m, 0, 2) * p.z + at(m, 0, 3) * p.w,
     y |-> at(m, 1, 0) * p.x + at(m, 1, 1) * p.y + at(m, 1, 2) * p.z + at(m, 1, 3) * p.w,
     z |-> at(m, 2, 0) * p.x + at(m, 2, 1) * p.y + at(m, 2, 2) * p.z + at(m, 2, 3) * p.w,
     w |-> at(m, 3, 0) * p.x + at(m, 3, 1) * p.y + at(m, 3, 2) * p.z + at(m, 3, 3) * p.w,
     d |-> m.d * p.d]

\* Mat4x4::operator*(const Mat4x4&): column col of the result is this * other.column(col)
MatMul(m, o) ==
    LET c0 == MatMulVec(m, column(o, 0))
        c1 == MatMulVec(m, column(o, 1))
        c2 == MatMulVec(m, column(o, 2))
        c3 == MatMulVec(m, column(o, 3))
    IN [data |-> <<c0.x, c0.y, c0.z, c0.w, c1.x, c1.y, c1.z, c1.w,
                   c2.x, c2.y, c2.z, c2.w, c3.x, c3.y, c3.z, c3.w>>,
        d |-> m.d * o.d]

\* Mat4x4::transposed
transposed(m) ==
    [data |-> <<at(m, 0, 0), at(m, 0, 1), at(m, 0, 2), at(m, 0, 3),
                at(m, 1, 0), at(m, 1, 1), at(m, 1, 2), at(m, 1, 3),
                at(m, 2, 0), at(m, 2, 1), at(m, 2, 2), at(m, 2, 3),
                at(m, 3, 0), at(m, 3, 1), at(m, 3, 2), at(m, 3, 3)>>,
     d |-> m.d]

MatEq(m, o) == \A i \in Idx : m.data[i] * o.d = o.data[i] * m.d

\* cos and sin of q quarter turns
CosQ(q) == CASE q % 4 = 0 -> 1 [] q % 4 = 1 -> 0 [] q % 4 = 2 -> -1 [] q % 4 = 3 -> 0
SinQ(q) == CASE q % 4 = 0 -> 0 [] q % 4 = 1 -> 1 [] q % 4 = 2 -> 0 [] q % 4 = 3 -> -1

\* The 2x2 block every rotationAB factory writes at coordinates (i, j)
PlaneBlock(i, j, q) ==
    LET cs == CosQ(q)
        sn == SinQ(q)
    IN SetAt(SetAt(SetAt(SetAt(MatIdentity, i, i, cs), i, j, -sn), j, i, sn), j, j, cs)

rotationXY(q) == PlaneBlock(0, 1, q)
rotationXZ(q) == PlaneBlock(0, 2, q)
rotationYZ(q) == PlaneBlock(1, 2, q)
rotationXW(q) == PlaneBlock(0, 3, q)
rotationYW(q) == PlaneBlock(1, 3, q)
rotationZW(q) == PlaneBlock(2, 3, q)

\* std::abs(angle) > 1e-8f, for an angle of q quarter turns
AboveThreshold(q) == q # 0

\* A rotationFromAngles that multiplies every factor on the left: result = rotationAB(angle) * result
rotationFromAngles_leftMultiplied(an) ==
    LET r0 == MatIdentity
        r1 == IF AboveThreshold(an[1]) THEN MatMul(rotationXY(an[1]), r0) ELSE r0
        r2 == IF AboveThreshold(an[2]) THEN MatMul(rotationXZ(an[2]), r1) ELSE r1
        r3 == IF AboveThreshold(an[3]) THEN MatMul(rotationYZ(an[3]), r2) ELSE r2
        r4 == IF AboveThreshold(an[4]) THEN MatMul(rotationXW(an[4]), r3) ELSE r3
        r5 == IF AboveThreshold(an[5]) THEN MatMul(rotationYW(an[5]), r4) ELSE r4
        r6 == IF AboveThreshold(an[6]) THEN MatMul(rotationZW(an[6]), r5) ELSE r5
    IN r6

\* Mat4x4::rotationFromAngles: result *= rotationAB(angle) for every angle above the threshold
rotationFromAngles(an) ==
    LET r0 == MatIdentity
        r1 == IF AboveThreshold(an[1]) THEN MatMul(r0, rotationXY(an[1])) ELSE r0
        r2 == IF AboveThreshold(an[2]) THEN MatMul(r1, rotationXZ(an[2])) ELSE r1
        r3 == IF AboveThreshold(an[3]) THEN MatMul(r2, rotationYZ(an[3])) ELSE r2
        r4 == IF AboveThreshold(an[4]) THEN MatMul(r3, rotationXW(an[4])) ELSE r3
        r5 == IF AboveThreshold(an[5]) THEN MatMul(r4, rotationYW(an[5])) ELSE r4
        r6 == IF AboveThreshold(an[6]) THEN MatMul(r5, rotationZW(an[6])) ELSE r5
    IN r6

\* Mat4x4::determinant: the numerator; the determinant is this over m.d^4
determinant_signSlip(m) ==
    LET a00 == at(m, 0, 0)  a01 == at(m, 0, 1)  a02 == at(m, 0, 2)  a03 == at(m, 0, 3)
        a10 == at(m, 1, 0)  a11 == at(m, 1, 1)  a12 == at(m, 1, 2)  a13 == at(m, 1, 3)
        a20 == at(m, 2, 0)  a21 == at(m, 2, 1)  a22 == at(m, 2, 2)  a23 == at(m, 2, 3)
        a30 == at(m, 3, 0)  a31 == at(m, 3, 1)  a32 == at(m, 3, 2)  a33 == at(m, 3, 3)
        b00 == a00 * a11 - a01 * a10
        b01 == a00 * a12 - a02 * a10
        b02 == a00 * a13 - a03 * a10
        b03 == a01 * a12 - a02 * a11
        b04 == a01 * a13 - a03 * a11
        b05 == a02 * a13 - a03 * a12
        b06 == a20 * a31 - a21 * a30
        b07 == a20 * a32 - a22 * a30
        b08 == a20 * a33 - a23 * a30
        b09 == a21 * a32 - a22 * a31
        b10 == a21 * a33 - a23 * a31
        b11 == a22 * a33 - a23 * a32
    IN [n |-> b00 * b11 - b01 * b10 - b02 * b09 + b03 * b08 - b04 * b07 + b05 * b06,
        d |-> m.d * m.d * m.d * m.d]

determinant(m) ==
    LET a00 == at(m, 0, 0)  a01 == at(m, 0, 1)  a02 == at(m, 0, 2)  a03 == at(m, 0, 3)
        a10 == at(m, 1, 0)  a11 == at(m, 1, 1)  a12 == at(m, 1, 2)  a13 == at(m, 1, 3)
        a20 == at(m, 2, 0)  a21 == at(m, 2, 1)  a22 == at(m, 2, 2)  a23 == at(m, 2, 3)
        a30 == at(m, 3, 0)  a31 == at(m, 3, 1)  a32 == at(m, 3, 2)  a33 == at(m, 3, 3)
        b00 == a00 * a11 - a01 * a10
        b01 == a00 * a12 - a02 * a10
        b02 == a00 * a13 - a03 * a10
        b03 == a01 * a12 - a02 * a11
        b04 == a01 * a13 - a03 * a11
        b05 == a02 * a13 - a03 * a12
        b06 == a20 * a31 - a21 * a30
        b07 == a20 * a32 - a22 * a30
        b08 == a20 * a33 - a23 * a30
        b09 == a21 * a32 - a22 * a31
        b10 == a21 * a33 - a23 * a31
        b11 == a22 * a33 - a23 * a32
    IN [n |-> b00 * b11 - b01 * b10 + b02 * b09 + b03 * b08 - b04 * b07 + b05 * b06,
        d |-> m.d * m.d * m.d * m.d]

\* std::abs(det) < 1e-10f for det = n/d: an integer n # 0 has |n| >= 1, and
\* every denominator d of the model is below 10^10, so the test is n = 0
belowSingularEps(det) == det.n = 0

\* The adjugate of Mat4x4::inverse times invDet.  The entries of mm are over
\* mm.d, the cofactors over mm.d^3 and det is n / mm.d^4, so cofactor * invDet
\* is (cofactor numerator * mm.d) / n; the sign of n is moved to the numerators.
adjugateTimesInvDet(mm) ==
    LET a00 == at(mm, 0, 0)  a01 == at(mm, 0, 1)  a02 == at(mm, 0, 2)  a03 == at(mm, 0, 3)
        a10 == at(mm, 1, 0)  a11 == at(mm, 1, 1)  a12 == at(mm, 1, 2)  a13 == at(mm, 1, 3)
        a20 == at(mm, 2, 0)  a21 == at(mm, 2, 1)  a22 == at(mm, 2, 2)  a23 == at(mm, 2, 3)
        a30 == at(mm, 3, 0)  a31 == at(mm, 3, 1)  a32 == at(mm, 3, 2)  a33 == at(mm, 3, 3)
        b00 == a00 * a11 - a01 * a10
        b01 == a00 * a12 - a02 * a10
        b02 == a00 * a13 - a03 * a10
        b03 == a01 * a12 - a02 * a11
        b04 == a01 * a13 - a03 * a11
        b05 == a02 * a13 - a03 * a12
        b06 == a20 * a31 - a21 * a30
        b07 == a20 * a32 - a22 * a30
        b08 == a20 * a33 - a23 * a30
        b09 == a21 * a32 - a22 * a31
        b10 == a21 * a33 - a23 * a31
        b11 == a22 * a33 - a23 * a32
        det == b00 * b11 - b01 * b10 + b02 * b09 + b03 * b08 - b04 * b07 + b05 * b06
        f == IF det < 0 THEN -mm.d ELSE mm.d
        r00 == (a11 * b11 - a12 * b10 + a13 * b09) * f
        r01 == (-a01 * b11 + a02 * b10 - a03 * b09) * f
        r02 == (a31 * b05 - a32 * b04 + a33 * b03) * f
        r03 == (-a21 * b05 + a22 * b04 - a23 * b03) * f
        r10 == (-a10 * b11 + a12 * b08 - a13 * b07) * f
        r11 == (a00 * b11 - a02 * b08 + a03 * b07) * f
        r12 == (-a30 * b05 + a32 * b02 - a33 * b01) * f
        r13 == (a20 * b05 - a22 * b02 + a23 * b01) * f
        r20 == (a10 * b10 - a11 * b08 + a13 * b06) * f
        r21 == (-a00 * b10 + a01 * b08 - a03 * b06) * f
        r22 == (a30 * b04 - a31 * b02 + a33 * b00) * f
        r23 == (-a20 * b04 + a21 * b02 - a23 * b00) * f
        r30 == (-a10 * b09 + a11 * b07 - a12 * b06) * f
        r31 == (a00 * b09 - a01 * b07 + a02 * b06) * f
        r32 == (-a30 * b03 + a31 * b01 - a32 * b00) * f
        r33 == (a20 * b03 - a21 * b01 + a22 * b00) * f
    IN [data |-> <<r00, r10, r20, r30, r01, r11, r21, r31,
                   r02, r12, r22, r32, r03, r13, r23, r33>>,
        d |-> IF det < 0 THEN -det ELSE det]

\* An inverse() that returns the default-constructed (all-zero) result on a singular matrix
matInverse_singularIsZero(mm) ==
    IF belowSingularEps(determinant(mm)) THEN Mat4x4Default ELSE adjugateTimesInvDet(mm)

\* An inverse() that does not multiply the adjugate by invDet
matInverse_noInvDet(mm) ==
    IF belowSingularEps(determinant(mm))
    THEN MatIdentity
    ELSE [adjugateTimesInvDet(mm) EXCEPT !.d = mm.d * mm.d * mm.d * mm.d]

\* Mat4x4::inverse
matInverse(mm) ==
    IF belowSingularEps(determinant(mm)) THEN MatIdentity ELSE adjugateTimesInvDet(mm)

\* Mat4x4::isOrthogonal, exactly: M * M^T = I
isOrthogonal(m) == MatEq(MatMul(m, transposed(m)), MatIdentity)

\* Mat4x4::isIdentity, exactly
isIdentity(m) == MatEq(m, MatIdentity)

(***************************************************************************)
(* Rotor4D                                                                 *)
(***************************************************************************)
\* Rotor4D(s, xy, xz, yz, xw, yw, zw, xyzw), every component over sqrt(k)
Rotor4D(s, xy, xz, yz, xw, yw, zw, xyzw, k) ==
    [s |-> s, xy |-> xy, xz |-> xz, yz |-> yz, xw |-> xw, yw |-> yw, zw |-> zw,
     xyzw |-> xyzw, k |-> k]

\* An identity() that returns the all-zero rotor
identity_allZero == Rotor4D(0, 0, 0, 0, 0, 0, 0, 0, 1)

\* Rotor4D::identity
identity == Rotor4D(1, 0, 0, 0, 0, 0, 0, 0, 1)

\* enum class RotationPlane
XY == 0
XZ == 1
YZ == 2
XW == 3
YW == 4
ZW == 5
RotationPlane == {XY, XZ, YZ, XW, YW, ZW}

\* rotation{pl}(q): the single-plane matrix factory of plane pl
planeRotation(pl, q) ==
    CASE pl = XY -> rotationXY(q)
      [] pl = XZ -> rotationXZ(q)
      [] pl = YZ -> rotationYZ(q)
      [] pl = XW -> rotationXW(q)
      [] pl = YW -> rotationYW(q)
      [] pl = ZW -> rotationZW(q)

\* cos(q*pi/4) and sin(q*pi/4) are HalfCos(q)/sqrt(HalfK(q)) and HalfSin(q)/sqrt(HalfK(q))
HalfK(q) == IF q % 2 = 1 THEN 2 ELSE 1
HalfCos(q) == CASE q % 8 \in {0, 1, 7} -> 1 [] q % 8 \in {2, 6} -> 0 [] q % 8 \in {3, 4, 5} -> -1
HalfSin(q) == CASE q % 8 \in {1, 2, 3} -> 1 [] q % 8 \in {0, 4} -> 0 [] q % 8 \in {5, 6, 7} -> -1

\* Rotor4D::fromPlaneAngle
fromPlaneAngle(pl, q) ==
    LET cs == HalfCos(q)
        sn == HalfSin(q)
        r == [identity EXCEPT !.s = cs, !.k = HalfK(q)]
    IN CASE pl = XY -> [r EXCEPT !.xy = sn]
         [] pl = XZ -> [r EXCEPT !.xz = sn]
         [] pl = YZ -> [r EXCEPT !.yz = sn]
         [] pl = XW -> [r EXCEPT !.xw = sn]
         [] pl = YW -> [r EXCEPT !.yw = sn]
         [] pl = ZW -> [r EXCEPT !.zw = sn]

\* Rotor4D::operator*
RotorMul(p, q) ==
    [s |-> p.s * q.s - p.xy * q.xy - p.xz * q.xz - p.yz * q.yz
           - p.xw * q.xw - p.yw * q.yw - p.zw * q.zw - p.xyzw * q.xyzw,
     xy |-> p.s * q.xy + p.xy * q.s - p.xz * q.yz + p.yz * q.xz
            - p.xw * q.yw + p.yw * q.xw + p.zw * q.xyzw + p.xyzw * q.zw,
     xz |-> p.s * q.xz + p.xy * q.yz + p.xz * q.s - p.yz * q.xy
            - p.xw * q.zw - p.yw * q.xyzw + p.zw * q.xw + p.xyzw * q.yw,
     yz |-> p.s * q.yz - p.xy * q.xz + p.xz * q.xy + p.yz * q.s
            + p.xw * q.xyzw - p.yw * q.zw + p.zw * q.yw - p.xyzw * q.xw,
     xw |-> p.s * q.xw + p.xy * q.yw + p.xz * q.zw - p.yz * q.xyzw
            + p.xw * q.s - p.yw * q.xy - p.zw * q.xz + p.xyzw * q.yz,
     yw |-> p.s * q.yw - p.xy * q.xw + p.xz * q.xyzw + p.yz * q.zw
            + p.xw * q.xy + p.yw * q.s - p.zw * q.yz - p.xyzw * q.xz,
     zw |-> p.s * q.zw - p.xy * q.xyzw - p.xz * q.xw - p.yz * q.yw
            + p.xw * q.xz + p.yw * q.yz + p.zw * q.s + p.xyzw * q.xy,
     xyzw |-> p.s * q.xyzw + p.xy * q.zw - p.xz * q.yw + p.yz * q.xw
              + p.xw * q.yz - p.yw * q.xz + p.zw * q.xy + p.xyzw * q.s,
     k |-> p.k * q.k]

\* Rotor4D::fromEuler6: result *= fromPlaneAngle(plane, angle) for every angle above the threshold
fromEuler6(an) ==
    LET r0 == identity
        r1 == IF AboveThreshold(an[1]) THEN RotorMul(r0, fromPlaneAngle(XY, an[1])) ELSE r0
        r2 == IF AboveThreshold(an[2]) THEN RotorMul(r1, fromPlaneAngle(XZ, an[2])) ELSE r1
        r3 == IF AboveThreshold(an[3]) THEN RotorMul(r2, fromPlaneAngle(YZ, an[3])) ELSE r2
        r4 == IF AboveThreshold(an[4]) THEN RotorMul(r3, fromPlaneAngle(XW, an[4])) ELSE r3
        r5 == IF AboveThreshold(an[5]) THEN RotorMul(r4, fromPlaneAngle(YW, an[5])) ELSE r4
        r6 == IF AboveThreshold(an[6]) THEN RotorMul(r5, fromPlaneAngle(ZW, an[6])) ELSE r5
    IN r6

\* Rotor4D::reverse
reverse(r) == Rotor4D(r.s, -r.xy, -r.xz, -r.yz, -r.xw, -r.yw, -r.zw, r.xyzw, r.k)

\* Sum of the squares of the eight stored numerators
SumSq(r) ==
    r.s * r.s + r.xy * r.xy + r.xz * r.xz + r.yz * r.yz
    + r.xw * r.xw + r.yw * r.yw + r.zw * r.zw + r.xyzw * r.xyzw

\* Rotor4D::magnitudeSquared, as the rational n/d
magnitudeSquared(r) == [n |-> SumSq(r), d |-> r.k]

\* Rotor4D::normalized: components times 1/magnitude() when magnitude() > 0, else identity()
normalized_noDivide(r) == r

normalized(r) ==
    IF SumSq(r) > 0
    THEN Rotor4D(r.s, r.xy, r.xz, r.yz, r.xw, r.yw, r.zw, r.xyzw, SumSq(r))
    ELSE identity

\* Rotor4D::inverse: reverse() times 1/magnitudeSquared() when magnitudeSquared() > 0, else identity()
inverse(r) ==
    IF SumSq(r) > 0
    THEN LET rev == reverse(r)
         IN Rotor4D(rev.s * r.k, rev.xy * r.k, rev.xz * r.k, rev.yz * r.k,
                    rev.xw * r.k, rev.yw * r.k, rev.zw * r.k, rev.xyzw * r.k,
                    r.k * SumSq(r) * SumSq(r))
    ELSE identity

\* Rotor4D::isNormalized, exactly: magnitudeSquared() = 1
isNormalized(r) == SumSq(r) = r.k

\* Rotor4D::toMatrix
toMatrix(r) ==
    LET n == normalized(r)
        s2 == n.s * n.s
        xy2 == n.xy * n.xy
        xz2 == n.xz * n.xz
        yz2 == n.yz * n.yz
        xw2 == n.xw * n.xw
        yw2 == n.yw * n.yw
        zw2 == n.zw * n.zw
        xyzw2 == n.xyzw * n.xyzw
        m00 == s2 + xy2 + xz2 + xw2 - yz2 - yw2 - zw2 - xyzw2
        m01 == 2 * (n.xy * n.yz + n.s * n.xz + n.xw * n.xyzw + n.yw * n.zw)
        m02 == 2 * (n.xz * n.yz - n.s * n.xy + n.xw * n.zw - n.yw * n.xyzw)
        m03 == 2 * (n.xw * n.yz - n.s * n.xyzw - n.xy * n.zw - n.xz * n.yw)
        m10 == 2 * (n.xy * n.yz - n.s * n.xz - n.xw * n.xyzw + n.yw * n.zw)
        m11 == s2 - xy2 + yz2 + yw2 - xz2 - xw2 - zw2 - xyzw2
        m12 == 2 * (n.yz * n.xz + n.s * n.xy + n.yw * n.xyzw + n.xw * n.zw)
        m13 == 2 * (n.yw * n.xz - n.s * n.xyzw - n.xy * n.xw - n.yz * n.zw)
        m20 == 2 * (n.xz * n.yz + n.s * n.xy - n.xw * n.zw - n.yw * n.xyzw)
        m21 == 2 * (n.yz * n.xz - n.s * n.xy - n.yw * n.xyzw + n.xw * n.zw)
        m22 == s2 - xy2 - yz2 + xz2 + zw2 - xw2 - yw2 - xyzw2
        m23 == 2 * (n.zw * n.xy + n.s * n.xyzw + n.xz * n.xw + n.yz * n.yw)
        m30 == 2 * (n.xw * n.yz + n.s * n.xyzw + n.xy * n.zw - n.xz * n.yw)
        m31 == 2 * (n.yw * n.xz + n.s * n.xyzw + n.xy * n.xw + n.yz * n.zw)
        m32 == 2 * (n.zw * n.xy - n.s * n.xyzw - n.xz * n.xw - n.yz * n.yw)
        m33 == s2 - xy2 - yz2 - xz2 - zw2 + xw2 + yw2 - xyzw2
    IN [data |-> <<m00, m10, m20, m30, m01, m11, m21, m31,
                   m02, m12, m22, m32, m03, m13, m23, m33>>,
        d |-> n.k]

\* The local `result` of Rotor4D::rotate: the expanded formula on the stored components
rotateExpanded(r, p) ==
    LET x2 == r.s*r.s + r.xy*r.xy + r.xz*r.xz + r.xw*r.xw - r.yz*r.yz - r.yw*r.yw - r.zw*r.zw - r.xyzw*r.xyzw
        y2 == r.s*r.s - r.xy*r.xy + r.yz*r.yz + r.yw*r.yw - r.xz*r.xz - r.xw*r.xw - r.zw*r.zw - r.xyzw*r.xyzw
        z2 == r.s*r.s - r.xy*r.xy - r.yz*r.yz + r.xz*r.xz + r.zw*r.zw - r.xw*r.xw - r.yw*r.yw - r.xyzw*r.xyzw
        w2 == r.s*r.s - r.xy*r.xy - r.yz*r.yz - r.xz*r.xz - r.zw*r.zw + r.xw*r.xw + r.yw*r.yw - r.xyzw*r.xyzw
        t1 == 2 * (r.s*r.xy + r.xz*r.yz + r.xw*r.yw + r.zw*r.xyzw)
        t2 == 2 * (r.s*r.xz - r.xy*r.yz + r.xw*r.zw - r.yw*r.xyzw)
        t3 == 2 * (r.s*r.yz + r.xy*r.xz + r.yw*r.zw + r.xw*r.xyzw)
        t4 == 2 * (r.s*r.xw - r.xy*r.yw - r.xz*r.zw + r.yz*r.xyzw)
        t5 == 2 * (r.s*r.yw + r.xy*r.xw - r.yz*r.zw - r.xz*r.xyzw)
        t6 == 2 * (r.s*r.zw + r.xz*r.xw + r.yz*r.yw + r.xy*r.xyzw)
    IN \* x2..w2 and t1..t6 are over r.k; (x2 + 1.0f) is (x2 + r.k) over r.k
       [x |-> p.x * (x2 + r.k) + p.y * t1 + p.z * t2 + p.w * t4,
        y |-> p.x * t1 + p.y * (y2 + r.k) + p.z * t3 + p.w * t5,
        z |-> p.x * t2 + p.y * t3 + p.z * (z2 + r.k) + p.w * t6,
        w |-> p.x * t4 + p.y * t5 + p.z * t6 + p.w * (w2 + r.k),
        d |-> 2 * r.k * p.d]

\* A rotate that returns the expanded-formula `result` instead of toMatrix() * v
rotate_returnsExpanded(r, p) == rotateExpanded(r, p)

\* Rotor4D::rotate: computes `result`, then returns toMatrix() * v
rotate(r, p) ==
    LET result == rotateExpanded(r, p)
    IN MatMulVec(toMatrix(r), p)

\* Equality of the real rotors two records stand for
RotorEq(p, q) ==
    LET same(x, y) == x * y >= 0 /\ x * x * q.k = y * y * p.k
    IN /\ same(p.s, q.s) /\ same(p.xy, q.xy) /\ same(p.xz, q.xz) /\ same(p.yz, q.yz)
       /\ same(p.xw, q.xw) /\ same(p.yw, q.yw) /\ same(p.zw, q.zw) /\ same(p.xyzw, q.xyzw)

\* Rotor4D::normalize (in place): components times 1/magnitude() when
\* magnitude() > 0; otherwise the rotor is left as it is
normalize(r) ==
    IF SumSq(r) > 0
    THEN [r EXCEPT !.k = SumSq(r)]
    ELSE r

\* Rotor4D::dot, as the rational n/d, for operands over the same sqrt(k)
rotorDot(p, q) ==
    [n |-> p.s * q.s + p.xy * q.xy + p.xz * q.xz + p.yz * q.yz
           + p.xw * q.xw + p.yw * q.yw + p.zw * q.zw + p.xyzw * q.xyzw,
     d |-> p.k]

\* Rotor4D::nlerp with t = th/2, for operands over the same sqrt(k):
\* s + (other.s - s) * t is (2*s + (other.s - s) * th) / 2
nlerp(p, o, th) ==
    LET result == Rotor4D(2 * p.s + (o.s - p.s) * th,
                          2 * p.xy + (o.xy - p.xy) * th,
                          2 * p.xz + (o.xz - p.xz) * th,
                          2 * p.yz + (o.yz - p.yz) * th,
                          2 * p.xw + (o.xw - p.xw) * th,
                          2 * p.yw + (o.yw - p.yw) * th,
                          2 * p.zw + (o.zw - p.zw) * th,
                          2 * p.xyzw + (o.xyzw - p.xyzw) * th,
                          4 * p.k)
    IN normalize(result)

\* A slerp whose first weight is computed from t instead of 1 - t
slerpW1_usesT(th) == IF th = 0 THEN 0 ELSE 1

\* w1 = sin((1 - t) * theta) / sin(theta) and w2 = sin(t * theta) / sin(theta)
\* at t = th/2, cos(theta) = d in [0, 1): at t = 0 they are 1 and 0, at t = 1
\* they are 0 and 1, at t = 1/2 both are sin(theta/2) / sin(theta)
\* = 1 / sqrt(2 * (1 + d)).  slerpW1, slerpW2 are the numerators and
\* slerpWK(th, dn, dd) the k of the weighted sum, for d = dn/dd and operands
\* over sqrt(dd): (p + b) / sqrt(dd) / sqrt(2 * (1 + dn/dd)) = (p + b) / sqrt(2 * (dd + dn)).
slerpW1(th) == IF th = 2 THEN 0 ELSE 1
slerpW2(th) == IF th = 0 THEN 0 ELSE 1
slerpWK(th, dn, dd) == IF th = 1 THEN 2 * (dd + dn) ELSE dd

\* Rotor4D::slerp with t = th/2, for operands over the same sqrt(k)
slerp(p, other, th) ==
    LET d0 == rotorDot(p, other)
        neg == d0.n < 0
        dn == IF neg THEN -d0.n ELSE d0.n
        bb == IF neg
              THEN Rotor4D(-other.s, -other.xy, -other.xz, -other.yz,
                           -other.xw, -other.yw, -other.zw, -other.xyzw, other.k)
              ELSE other
        w1 == slerpW1(th)
        w2 == slerpW2(th)
    IN IF dn * 10000 > 9995 * d0.d
       THEN nlerp(p, bb, th)
       ELSE Rotor4D(p.s * w1 + bb.s * w2,
                    p.xy * w1 + bb.xy * w2,
                    p.xz * w1 + bb.xz * w2,
                    p.yz * w1 + bb.yz * w2,
                    p.xw * w1 + bb.xw * w2,
                    p.yw * w1 + bb.yw * w2,
                    p.zw * w1 + bb.zw * w2,
                    p.xyzw * w1 + bb.xyzw * w2,
                    slerpWK(th, dn, d0.d))

(***************************************************************************)
(* Inputs                                                                  *)
(***************************************************************************)
Comp == -MaxComp..MaxComp

zeroRotor == Rotor4D(0, 0, 0, 0, 0, 0, 0, 0, 1)

\* r with component i (in the order of Rotor4D::toArray) set to x
WithComp(r, i, x) ==
    CASE i = 1 -> [r EXCEPT !.s = x]
      [] i = 2 -> [r EXCEPT !.xy = x]
      [] i = 3 -> [r EXCEPT !.xz = x]
      [] i = 4 -> [r EXCEPT !.yz = x]
      [] i = 5 -> [r EXCEPT !.xw = x]
      [] i = 6 -> [r EXCEPT !.yw = x]
      [] i = 7 -> [r EXCEPT !.zw = x]
      [] i = 8 -> [r EXCEPT !.xyzw = x]

\* Rotors built with the eight-float constructor from small integers,
\* at most n of them non-zero
TermRotors[n \in 0..MaxTerms] ==
    IF n = 0 THEN {zeroRotor}
    ELSE UNION {{WithComp(r, i, x) : i \in 1..8, x \in Comp} : r \in TermRotors[n - 1]}

IntRotors == TermRotors[MaxTerms]

\* The zero rotor, and plus or minus every basis element
BasisRotors == {zeroRotor} \cup {WithComp(zeroRotor, i, x) : i \in 1..8, x \in {-1, 1}}

Quarters == -3..MaxQuarter
PlaneRotors == {fromPlaneAngle(pl, q) : pl \in RotationPlane, q \in Quarters}

EulerQuarters == -1..MaxEulerQuarter
EulerAngles == [1..6 -> EulerQuarters]
EulerRotors == {fromEuler6(an) : an \in EulerAngles}

AnyRotor == IntRotors \cup PlaneRotors
SimpleRotors == BasisRotors \cup PlaneRotors

\* Unit rotors: the unit basis rotors and the single-plane rotors
UnitRotors == {r \in SimpleRotors : isNormalized(r)}

\* Interpolation parameters t = 0, 1/2, 1, in halves
Halves == 0..2

VecInputs == {zeroVec, unitX, unitY, unitZ, unitW, Vec4(1, 2, 3, 4)}
ProbeVecs == {unitX, Vec4(1, 2, 3, 4)}

\* Vectors of small integers, and the same over 2
SmallVecs ==
    {[Vec4(x, y, -x, x + y) EXCEPT !.d = e] : x \in Comp, y \in Comp, e \in {1, 2}}

NormVecs == VecInputs \cup SmallVecs \cup {Vec4(3, 4, 0, 0)}

\* Matrices: zero(), identity() and Mat4x4(2.0f) with up to two elements
\* overwritten through at(row, col), the single-plane rotation matrices, and
\* the matrices the single-plane rotors convert to
EditedMatrices ==
    {SetAt(SetAt(base, r1, c1, x1), r2, c2, x2) :
        base \in {MatZero, MatIdentity, Mat4x4Diagonal(2)},
        r1 \in 0..3, c1 \in 0..3, x1 \in Comp,
        r2 \in 0..3, c2 \in 0..3, x2 \in Comp}
PlaneMatrices == {planeRotation(pl, q) : pl \in RotationPlane, q \in Quarters}
RotorMatrices == {toMatrix(r) : r \in PlaneRotors}
MatInputs == EditedMatrices \cup PlaneMatrices \cup RotorMatrices

\* Command type bytes: the five known types, and unknown ones
CmdTypes == {0, 1, 2, 3, 4, 5, 6, 255}

\* The data bytes the switch skips after the type byte
cmdSkip(ty) == CASE ty = 1 -> 12 [] ty = 2 -> 4 [] ty = 3 -> 9 [] OTHER -> 0

cmdResult_alwaysSuccess(ty) == 1

\* The byte the switch writes to results[result_offset++]
cmdResult(ty) ==
    CASE ty = 1 -> 1 [] ty = 2 -> 1 [] ty = 3 -> 1 [] ty = 4 -> 1 [] ty = 5 -> 1
      [] OTHER -> 0

\* 1 / epsilon for the default epsilon = 1e-6f, and the denominator of 1e-7f
EpsInv == 1000000
TinyDen == 10000000

\* Vec4::isZero with the default epsilon: lengthSquared() < epsilon * epsilon,
\* that is n / d^2 < 1 / EpsInv^2 for the sum n of the squared numerators;
\* exact for denominators below EpsInv and for multiples of EpsInv
isZero(p) ==
    LET n == p.x * p.x + p.y * p.y + p.z * p.z + p.w * p.w
        q == p.d \div EpsInv
    IN n < q * q \/ n = 0

\* Vectors with components of magnitude 1e-7
TinyVecs == {[Vec4(x, y, 0, 0) EXCEPT !.d = TinyDen] : x \in Comp, y \in Comp}

(***************************************************************************)
(* The C interface (vib3_ffi.cpp): its own rotor construction, product and *)
(* rotation, on the same records as the core                                *)
(***************************************************************************)
\* vib3_rotor4d_from_plane_angle
vib3_rotor4d_from_plane_angle(pl, q) ==
    LET cs == HalfCos(q)
        sn == HalfSin(q)
        r == [identity EXCEPT !.s = cs, !.k = HalfK(q)]
    IN CASE pl = XY -> [r EXCEPT !.xy = -sn]
         [] pl = XZ -> [r EXCEPT !.xz = -sn]
         [] pl = YZ -> [r EXCEPT !.yz = -sn]
         [] pl = XW -> [r EXCEPT !.xw = -sn]
         [] pl = YW -> [r EXCEPT !.yw = -sn]
         [] pl = ZW -> [r EXCEPT !.zw = -sn]

\* vib3_rotor4d_multiply
vib3_rotor4d_multiply(p, q) ==
    Rotor4D(
        p.s * q.s
            - p.xy * q.xy - p.xz * q.xz - p.yz * q.yz
            - p.xw * q.xw - p.yw * q.yw - p.zw * q.zw
            - p.xyzw * q.xyzw,
        p.s * q.xy + p.xy * q.s
            + p.xz * q.yz - p.yz * q.xz
            + p.xw * q.yw - p.yw * q.xw
            - p.zw * q.xyzw - p.xyzw * q.zw,
        p.s * q.xz + p.xz * q.s
            - p.xy * q.yz + p.yz * q.xy
            + p.xw * q.zw - p.zw * q.xw
            + p.yw * q.xyzw + p.xyzw * q.yw,
        p.s * q.yz + p.yz * q.s
            + p.xy * q.xz - p.xz * q.xy
            + p.yw * q.zw - p.zw * q.yw
            - p.xw * q.xyzw - p.xyzw * q.xw,
        p.s * q.xw + p.xw * q.s
            - p.xy * q.yw + p.yw * q.xy
            - p.xz * q.zw + p.zw * q.xz
            - p.yz * q.xyzw - p.xyzw * q.yz,
        p.s * q.yw + p.yw * q.s
            + p.xy * q.xw - p.xw * q.xy
            - p.yz * q.zw + p.zw * q.yz
            + p.xz * q.xyzw + p.xyzw * q.xz,
        p.s * q.zw + p.zw * q.s
            + p.xz * q.xw - p.xw * q.xz
            + p.yz * q.yw - p.yw * q.yz
            - p.xy * q.xyzw - p.xyzw * q.xy,
        p.s * q.xyzw + p.xyzw * q.s
            + p.xy * q.zw + p.zw * q.xy
            - p.xz * q.yw - p.yw * q.xz
            + p.yz * q.xw + p.xw * q.yz,
        p.k * q.k)

\* vib3_rotor4d_rotate: the closed form on the rotor as given, without
\* normalization; the squares carry the divisor r.k
vib3_rotor4d_rotate(r, p) ==
    LET x == p.x  y == p.y  z == p.z  w == p.w
        s2 == r.s * r.s
        xy2 == r.xy * r.xy
        xz2 == r.xz * r.xz
        yz2 == r.yz * r.yz
        xw2 == r.xw * r.xw
        yw2 == r.yw * r.yw
        zw2 == r.zw * r.zw
        newX == x * (s2 + xy2 + xz2 + xw2 - yz2 - yw2 - zw2 - r.xyzw * r.xyzw)
                + 2 * (r.s * (r.xy * y + r.xz * z + r.xw * w)
                     + r.xy * (r.yz * z + r.yw * w)
                     + r.xz * (r.zw * w - r.yz * y)
                     + r.xw * (-r.yw * y - r.zw * z))
        newY == y * (s2 - xy2 + yz2 + yw2 - xz2 - xw2 - zw2 - r.xyzw * r.xyzw)
                + 2 * (r.s * (-r.xy * x + r.yz * z + r.yw * w)
                     + r.xy * (r.xz * z + r.xw * w)
                     + r.yz * (r.zw * w - r.xz * x)
                     + r.yw * (-r.xw * x - r.zw * z))
        newZ == z * (s2 - xy2 - xz2 + yz2 + zw2 - xw2 - yw2 - r.xyzw * r.xyzw)
                + 2 * (r.s * (-r.xz * x - r.yz * y + r.zw * w)
                     + r.xz * (r.xy * y + r.xw * w)
                     + r.yz * (r.xy * x + r.yw * w)
                     + r.zw * (-r.xw * x - r.yw * y))
        newW == w * (s2 - xy2 - xz2 - yz2 - xw2 - yw2 - zw2 + r.xyzw * r.xyzw)
                + 2 * (r.s * (-r.xw * x - r.yw * y - r.zw * z)
                     + r.xw * (r.xy * y + r.xz * z)
                     + r.yw * (r.xy * x + r.yz * z)
                     + r.zw * (r.xz * x + r.yz * y))
    IN [x |-> newX, y |-> newY, z |-> newZ, w |-> newW, d |-> p.d * r.k]

(***************************************************************************)
(* Single-precision values for the branch of slerp.  A value is            *)
(* [cls, n]: "fin" is n/4 exactly (components are multiples of 1/2, their  *)
(* products multiples of 1/4); "big" is n times a finite float B whose     *)
(* square exceeds FLT_MAX; "huge" is n times 4*B^2, which exists only in   *)
(* an intermediate of wider precision; "inf" is the infinity of sign n;    *)
(* "nan" is NaN.  With these units every product of two components is      *)
(* (x.n * y.n) / 4 in the class of the product.                            *)
(***************************************************************************)
Fin(n) == [cls |-> "fin", n |-> n]
BigF(n) == [cls |-> "big", n |-> n]
Inf(n) == [cls |-> "inf", n |-> IF n > 0 THEN 1 ELSE -1]
NaN == [cls |-> "nan", n |-> 0]
\* acos is not called
NoAcos == [cls |-> "none", n |-> 0]

FloatRank(x) == CASE x.cls = "fin" -> 0 [] x.cls = "big" -> 1 [] x.cls = "huge" -> 2

\* x * y for two components; wide is TRUE when the build evaluates float
\* expressions in a wider format (FLT_EVAL_METHOD > 0)
floatMul(x, y, wide) ==
    CASE x.cls = "big" /\ y.cls = "big" ->
            IF wide THEN [cls |-> "huge", n |-> (x.n * y.n) \div 4] ELSE Inf(x.n * y.n)
      [] x.cls = "fin" /\ y.cls = "fin" -> Fin((x.n * y.n) \div 4)
      [] OTHER -> IF x.n * y.n = 0 THEN Fin(0) ELSE BigF((x.n * y.n) \div 4)

\* x + y: opposite infinities give NaN, a value of lower magnitude class is
\* absorbed by rounding, equal classes add exactly
floatAdd(x, y) ==
    CASE x.cls = "nan" \/ y.cls = "nan" -> NaN
      [] x.cls = "inf" /\ y.cls = "inf" -> IF x.n = y.n THEN x ELSE NaN
      [] x.cls = "inf" -> x
      [] y.cls = "inf" -> y
      [] FloatRank(x) > FloatRank(y) -> x
      [] FloatRank(y) > FloatRank(x) -> y
      [] OTHER -> IF x.n + y.n = 0 THEN Fin(0) ELSE [cls |-> x.cls, n |-> x.n + y.n]

\* The value returned as float: a wide intermediate beyond FLT_MAX becomes infinite
floatReturn(x) == IF x.cls = "huge" THEN Inf(x.n) ELSE x

\* Rotor4D::dot in single precision, summed left to right
floatDot(p, q, wide) ==
    floatReturn(
        floatAdd(floatAdd(floatAdd(floatAdd(floatAdd(floatAdd(floatAdd(
            floatMul(p.s, q.s, wide), floatMul(p.xy, q.xy, wide)),
            floatMul(p.xz, q.xz, wide)), floatMul(p.yz, q.yz, wide)),
            floatMul(p.xw, q.xw, wide)), floatMul(p.yw, q.yw, wide)),
            floatMul(p.zw, q.zw, wide)), floatMul(p.xyzw, q.xyzw, wide)))

\* d < 0.0f and d > 0.9995f; every comparison with NaN is false
floatNegative(d) == d.cls # "nan" /\ d.n < 0
aboveSlerpThreshold(d) ==
    CASE d.cls = "nan" -> FALSE
      [] d.cls = "fin" -> d.n * 10000 > 9995 * 4
      [] OTHER -> d.n > 0

slerpCorrectedDot_noNegate(d) == d

\* if (d < 0.0f) { d = -d; ... }
slerpCorrectedDot(d) == IF floatNegative(d) THEN [d EXCEPT !.n = -d.n] ELSE d

\* The argument slerp passes to acos, NoAcos when it returns nlerp(b, t) instead
slerpAcosArg(p, other, wide) ==
    LET d == slerpCorrectedDot(floatDot(p, other, wide))
    IN IF aboveSlerpThreshold(d) THEN NoAcos ELSE d

\* Finite single-precision components: multiples of 1/2 up to 1, and +-2B
FloatComps == {Fin(n) : n \in {-4, -2, 0, 2, 4}} \cup {BigF(-2), BigF(2)}
FloatRotors ==
    {[s |-> x, xy |-> y, xz |-> Fin(0), yz |-> Fin(0), xw |-> Fin(0), yw |-> Fin(0),
      zw |-> Fin(0), xyzw |-> z] : x \in FloatComps, y \in FloatComps, z \in {Fin(0), Fin(2)}}

\* Non-zero scale factors applied to all eight components of a rotor
Scales == {-2, -1, 2, 3}

\* Rotor4D(r.s * kk, r.xy * kk, ..., r.xyzw * kk)
scaledRotor(r, kk) ==
    Rotor4D(r.s * kk, r.xy * kk, r.xz * kk, r.yz * kk,
            r.xw * kk, r.yw * kk, r.zw * kk, r.xyzw * kk, r.k)

\* Mat4x4(col0, col1, col2, col3) with integer columns
MatOfColumns(c0, c1, c2, c3) ==
    [data |-> <<c0.x, c0.y, c0.z, c0.w, c1.x, c1.y, c1.z, c1.w,
                c2.x, c2.y, c2.z, c2.w, c3.x, c3.y, c3.z, c3.w>>,
     d |-> 1]

\* Matrices whose columns are drawn from a few integer vectors, and scale matrices
ColumnVecs == {unitX, unitY, unitW, Vec4(1, 2, 3, 4), Vec4(-1, 1, 0, 2), Vec4(2, 0, -3, 1)}
ColumnMatrices ==
    {MatOfColumns(c0, c1, c2, c3) :
        c0 \in ColumnVecs, c1 \in ColumnVecs, c2 \in ColumnVecs, c3 \in ColumnVecs}
ScaleFactors == {-1, 0, 2, 3}
ScaleMatrices ==
    {MatOfColumns(Vec4(sx, 0, 0, 0), Vec4(0, sy, 0, 0), Vec4(0, 0, sz, 0), Vec4(0, 0, 0, sw)) :
        sx \in ScaleFactors, sy \in ScaleFactors, sz \in ScaleFactors, sw \in ScaleFactors}
DetInputs == MatInputs \cup ColumnMatrices \cup ScaleMatrices

(***************************************************************************)
(* State machine: one call at a time, its operands and results recorded    *)
(***************************************************************************)
Init ==
    /\ pc = "idle"
    /\ a = identity /\ b = identity /\ c = identity
    /\ v = zeroVec
    /\ plane = XY /\ angle = 0
    /\ angles = [i \in 1..6 |-> 0]
    /\ outr = identity
    /\ outv = zeroVec
    /\ outm = MatIdentity
    /\ t = 0
    /\ mat = MatIdentity
    /\ lo = zeroVec /\ hi = zeroVec
    /\ outb = FALSE
    /\ acosArg = NoAcos
    /\ size = 0 /\ offset = 0 /\ result_offset = 0
    /\ results = <<>> /\ decoded = 0 /\ readIdx = -1 /\ cmd_type = -1
    /\ outn = [n |-> 0, d |-> 1]

\* r.rotate(u)
Rotate ==
    /\ pc = "idle"
    /\ \E r \in AnyRotor, u \in VecInputs :
         /\ a' = r /\ v' = u
         /\ outv' = rotate(r, u)
    /\ pc' = "rotate"
    /\ UNCHANGED <<outb, acosArg, size, offset, result_offset, results, decoded, readIdx, cmd_type, outn,
                   t, mat, lo, hi, b, c, plane, angle, angles, outr, outm>>

\* r.toMatrix()
ToMatrix ==
    /\ pc = "idle"
    /\ \E r \in AnyRotor :
         /\ a' = r
         /\ outm' = toMatrix(r)
    /\ pc' = "toMatrix"
    /\ UNCHANGED <<outb, acosArg, size, offset, result_offset, results, decoded, readIdx, cmd_type, outn,
                   t, mat, lo, hi, b, c, v, plane, angle, angles, outr, outv>>

\* x * y
Multiply ==
    /\ pc = "idle"
    /\ \E x \in IntRotors, y \in BasisRotors :
         /\ a' = x /\ b' = y
         /\ outr' = RotorMul(x, y)
    /\ pc' = "multiply"
    /\ UNCHANGED <<outb, acosArg, size, offset, result_offset, results, decoded, readIdx, cmd_type, outn,
                   t, mat, lo, hi, c, v, plane, angle, angles, outv, outm>>

\* Rotor4D::fromPlaneAngle(pl, q).rotate(u)
PlaneRotate ==
    /\ pc = "idle"
    /\ \E pl \in RotationPlane, q \in Quarters, u \in VecInputs :
         /\ plane' = pl /\ angle' = q /\ v' = u
         /\ a' = fromPlaneAngle(pl, q)
         /\ outv' = rotate(fromPlaneAngle(pl, q), u)
    /\ pc' = "planeRotate"
    /\ UNCHANGED <<outb, acosArg, size, offset, result_offset, results, decoded, readIdx, cmd_type, outn,
                   t, mat, lo, hi, b, c, angles, outr, outm>>

\* Rotor4D::fromEuler6(an).rotate(u)
EulerRotate ==
    /\ pc = "idle"
    /\ \E an \in EulerAngles, u \in VecInputs :
         /\ angles' = an /\ v' = u
         /\ a' = fromEuler6(an)
         /\ outv' = rotate(fromEuler6(an), u)
    /\ pc' = "eulerRotate"
    /\ UNCHANGED <<outb, acosArg, size, offset, result_offset, results, decoded, readIdx, cmd_type, outn,
                   t, mat, lo, hi, b, c, plane, angle, outr, outm>>

\* (x * y).rotate(u)
ComposeRotate ==
    /\ pc = "idle"
    /\ \E x \in SimpleRotors, y \in SimpleRotors, u \in ProbeVecs :
         /\ a' = x /\ b' = y /\ v' = u
         /\ outr' = RotorMul(x, y)
         /\ outv' = rotate(RotorMul(x, y), u)
    /\ pc' = "composeRotate"
    /\ UNCHANGED <<outb, acosArg, size, offset, result_offset, results, decoded, readIdx, cmd_type, outn,
                   t, mat, lo, hi, c, plane, angle, angles, outm>>

\* r.inverse().rotate(r.rotate(u))
InverseRotate ==
    /\ pc = "idle"
    /\ \E r \in AnyRotor, u \in VecInputs :
         /\ a' = r /\ v' = u
         /\ outr' = inverse(r)
         /\ outv' = rotate(inverse(r), rotate(r, u))
    /\ pc' = "inverseRotate"
    /\ UNCHANGED <<outb, acosArg, size, offset, result_offset, results, decoded, readIdx, cmd_type, outn,
                   t, mat, lo, hi, b, c, plane, angle, angles, outm>>

\* (r * r.reverse()).rotate(u)
ReverseCancel ==
    /\ pc = "idle"
    /\ \E r \in AnyRotor \cup EulerRotors, u \in VecInputs :
         /\ a' = r /\ v' = u
         /\ outr' = RotorMul(r, reverse(r))
         /\ outv' = rotate(RotorMul(r, reverse(r)), u)
    /\ pc' = "reverseCancel"
    /\ UNCHANGED <<outb, acosArg, size, offset, result_offset, results, decoded, readIdx, cmd_type, outn,
                   t, mat, lo, hi, b, c, plane, angle, angles, outm>>

\* (x * y) * z
MulAssoc ==
    /\ pc = "idle"
    /\ \E x \in BasisRotors, y \in BasisRotors, z \in BasisRotors :
         /\ a' = x /\ b' = y /\ c' = z
         /\ outr' = RotorMul(RotorMul(x, y), z)
    /\ pc' = "mulAssoc"
    /\ UNCHANGED <<outb, acosArg, size, offset, result_offset, results, decoded, readIdx, cmd_type, outn,
                   t, mat, lo, hi, v, plane, angle, angles, outv, outm>>

\* Rotor4D::identity().rotate(u) and Rotor4D::identity().toMatrix()
IdentityRotate ==
    /\ pc = "idle"
    /\ \E u \in VecInputs :
         /\ v' = u
         /\ outv' = rotate(identity, u)
    /\ a' = identity
    /\ outm' = toMatrix(identity)
    /\ pc' = "identityRotate"
    /\ UNCHANGED <<outb, acosArg, size, offset, result_offset, results, decoded, readIdx, cmd_type, outn,
                   t, mat, lo, hi, b, c, plane, angle, angles, outr>>

\* x.slerp(y, th/2).rotate(u), x and y unit rotors
Slerp ==
    /\ pc = "idle"
    /\ \E x \in UnitRotors, y \in UnitRotors, th \in Halves, u \in ProbeVecs :
         /\ x.k = y.k
         /\ a' = x /\ b' = y /\ t' = th /\ v' = u
         /\ outr' = slerp(x, y, th)
         /\ outv' = rotate(slerp(x, y, th), u)
    /\ pc' = "slerp"
    /\ UNCHANGED <<outb, acosArg, size, offset, result_offset, results, decoded, readIdx, cmd_type, outn,
                   mat, lo, hi, c, plane, angle, angles, outm>>

\* r.normalize()
Normalize ==
    /\ pc = "idle"
    /\ \E r \in AnyRotor :
         /\ a' = r
         /\ outr' = normalize(r)
    /\ pc' = "normalize"
    /\ UNCHANGED <<outb, acosArg, size, offset, result_offset, results, decoded, readIdx, cmd_type, outn,
                   t, mat, lo, hi, b, c, v, plane, angle, angles, outv, outm>>

\* r.normalized()
Normalized ==
    /\ pc = "idle"
    /\ \E r \in AnyRotor :
         /\ a' = r
         /\ outr' = normalized(r)
    /\ pc' = "normalized"
    /\ UNCHANGED <<outb, acosArg, size, offset, result_offset, results, decoded, readIdx, cmd_type, outn,
                   t, mat, lo, hi, b, c, v, plane, angle, angles, outv, outm>>

\* x.nlerp(y, th/2)
Nlerp ==
    /\ pc = "idle"
    /\ \E x \in IntRotors, y \in BasisRotors, th \in Halves :
         /\ a' = x /\ b' = y /\ t' = th
         /\ outr' = nlerp(x, y, th)
    /\ pc' = "nlerp"
    /\ UNCHANGED <<outb, acosArg, size, offset, result_offset, results, decoded, readIdx, cmd_type, outn,
                   mat, lo, hi, c, v, plane, angle, angles, outv, outm>>

\* Rotor4D::fromEuler6(an) and Mat4x4::rotationFromAngles(an)
FromAngles ==
    /\ pc = "idle"
    /\ \E an \in EulerAngles :
         /\ angles' = an
         /\ outr' = fromEuler6(an)
         /\ outm' = rotationFromAngles(an)
    /\ pc' = "fromAngles"
    /\ UNCHANGED <<outb, acosArg, size, offset, result_offset, results, decoded, readIdx, cmd_type, outn,
                   t, mat, lo, hi, a, b, c, v, plane, angle, outv>>

\* mm.inverse()
MatInverse ==
    /\ pc = "idle"
    /\ \E mm \in MatInputs :
         /\ mat' = mm
         /\ outm' = matInverse(mm)
    /\ pc' = "matInverse"
    /\ UNCHANGED <<outb, acosArg, size, offset, result_offset, results, decoded, readIdx, cmd_type, outn,
                   t, lo, hi, a, b, c, v, plane, angle, angles, outr, outv>>

\* u.clamp(l, h)
Clamp ==
    /\ pc = "idle"
    /\ \E u \in SmallVecs, l \in SmallVecs, h \in SmallVecs :
         /\ v' = u /\ lo' = l /\ hi' = h
         /\ outv' = clamp(u, l, h)
    /\ pc' = "clamp"
    /\ UNCHANGED <<outb, acosArg, size, offset, result_offset, results, decoded, readIdx, cmd_type, outn,
                   t, mat, a, b, c, plane, angle, angles, outr, outm>>

\* u.normalized()
VecNormalized ==
    /\ pc = "idle"
    /\ \E u \in NormVecs :
         /\ v' = u
         /\ outv' = vecNormalized(u)
    /\ pc' = "vecNormalized"
    /\ UNCHANGED <<outb, acosArg, size, offset, result_offset, results, decoded, readIdx, cmd_type, outn,
                   t, mat, lo, hi, a, b, c, plane, angle, angles, outr, outm>>

\* u.normalize()
VecNormalize ==
    /\ pc = "idle"
    /\ \E u \in NormVecs :
         /\ v' = u
         /\ outv' = vecNormalize(u)
    /\ pc' = "vecNormalize"
    /\ UNCHANGED <<outb, acosArg, size, offset, result_offset, results, decoded, readIdx, cmd_type, outn,
                   t, mat, lo, hi, a, b, c, plane, angle, angles, outr, outm>>

\* u.projectOnto(o)
ProjectOnto ==
    /\ pc = "idle"
    /\ \E u \in SmallVecs, o \in SmallVecs :
         /\ v' = u /\ lo' = o
         /\ outv' = projectOnto(u, o)
    /\ pc' = "projectOnto"
    /\ UNCHANGED <<outb, acosArg, size, offset, result_offset, results, decoded,
                   readIdx, cmd_type, outn, t, mat, hi, a, b, c, plane, angle, angles, outr,
                   outm>>

\* Mat4x4 m;
DefaultConstruct ==
    /\ pc = "idle"
    /\ outm' = Mat4x4Default
    /\ pc' = "defaultConstruct"
    /\ UNCHANGED <<outb, acosArg, size, offset, result_offset, results, decoded,
                   readIdx, cmd_type, outn, t, mat, lo, hi, a, b, c, v, plane, angle, angles,
                   outr, outv>>

\* Rotor4D(r.s * kk, ...).toMatrix() and Rotor4D(r.s * kk, ...).rotate(u)
ScaledRotate ==
    /\ pc = "idle"
    /\ \E r \in AnyRotor, kk \in Scales, u \in ProbeVecs :
         /\ a' = r /\ b' = scaledRotor(r, kk) /\ v' = u
         /\ outm' = toMatrix(scaledRotor(r, kk))
         /\ outv' = rotate(scaledRotor(r, kk), u)
    /\ pc' = "scaledRotate"
    /\ UNCHANGED <<outb, acosArg, size, offset, result_offset, results, decoded,
                   readIdx, cmd_type, outn, t, mat, lo, hi, c, plane, angle, angles, outr>>

\* mm.determinant()
Determinant ==
    /\ pc = "idle"
    /\ \E mm \in DetInputs :
         /\ mat' = mm
         /\ outn' = determinant(mm)
    /\ pc' = "determinant"
    /\ UNCHANGED <<outb, acosArg, size, offset, result_offset, results, decoded,
                   readIdx, cmd_type, t, lo, hi, a, b, c, v, plane, angle, angles, outr, outv,
                   outm>>

\* (x * y).reverse()
ReverseProduct ==
    /\ pc = "idle"
    /\ \E x \in IntRotors, y \in BasisRotors :
         /\ a' = x /\ b' = y
         /\ outr' = reverse(RotorMul(x, y))
    /\ pc' = "reverseProduct"
    /\ UNCHANGED <<outb, acosArg, size, offset, result_offset, results, decoded,
                   readIdx, cmd_type, outn, t, mat, lo, hi, c, v, plane, angle, angles, outv,
                   outm>>

\* vib3_rotor4d_rotate(vib3_rotor4d_from_plane_angle(pl, q), u)
FfiPlaneRotate ==
    /\ pc = "idle"
    /\ \E pl \in RotationPlane, q \in Quarters, u \in ProbeVecs :
         /\ plane' = pl /\ angle' = q /\ v' = u
         /\ outr' = vib3_rotor4d_from_plane_angle(pl, q)
         /\ outv' = vib3_rotor4d_rotate(vib3_rotor4d_from_plane_angle(pl, q), u)
    /\ pc' = "ffiPlaneRotate"
    /\ UNCHANGED <<outb, acosArg, size, offset, result_offset, results, decoded,
                   readIdx, cmd_type, outn, t, mat, lo, hi, a, b, c, angles, outm>>

\* vib3_rotor4d_rotate(vib3_rotor4d_multiply(from_plane_angle(p1, q1),
\* from_plane_angle(p2, q2)), u); plane and angle hold both inputs
FfiComposeRotate ==
    /\ pc = "idle"
    /\ \E p1 \in RotationPlane, q1 \in Quarters, p2 \in RotationPlane, q2 \in Quarters,
          u \in ProbeVecs :
         LET x == vib3_rotor4d_from_plane_angle(p1, q1)
             y == vib3_rotor4d_from_plane_angle(p2, q2)
         IN /\ plane' = <<p1, p2>> /\ angle' = <<q1, q2>> /\ v' = u
            /\ a' = x /\ b' = y
            /\ outr' = vib3_rotor4d_multiply(x, y)
            /\ outv' = vib3_rotor4d_rotate(vib3_rotor4d_multiply(x, y), u)
    /\ pc' = "ffiComposeRotate"
    /\ UNCHANGED <<outb, acosArg, size, offset, result_offset, results, decoded,
                   readIdx, cmd_type, outn, t, mat, lo, hi, c, angles, outm>>

\* x.slerp(y, t) up to the choice between nlerp and the spherical formula
SlerpBranch ==
    /\ pc = "idle"
    /\ \E x \in FloatRotors, y \in FloatRotors, wide \in BOOLEAN :
         /\ a' = x /\ b' = y
         /\ acosArg' = slerpAcosArg(x, y, wide)
         /\ outb' = aboveSlerpThreshold(slerpCorrectedDot(floatDot(x, y, wide)))
    /\ pc' = "slerpBranch"
    /\ UNCHANGED <<size, offset, result_offset, results, decoded, readIdx, cmd_type, outn, t, mat,
                   lo, hi, c, v, plane, angle, angles, outr, outv, outm>>

\* u.isZero()
IsZero ==
    /\ pc = "idle"
    /\ \E u \in VecInputs \cup SmallVecs \cup TinyVecs :
         /\ v' = u
         /\ outb' = isZero(u)
    /\ pc' = "isZero"
    /\ UNCHANGED <<acosArg, size, offset, result_offset, results, decoded, readIdx, cmd_type,
                   outn, t, mat, lo, hi, a, b, c, plane, angle, angles, outr, outv,
                   outm>>

\* vib3_process_command_batch(commands, n, results) is entered; the bytes of
\* commands are chosen when they are read, each index being read at most once
BatchCall ==
    /\ pc = "idle"
    /\ \E n \in 0..MaxBatch : size' = n
    /\ offset' = 0 /\ result_offset' = 0
    /\ results' = <<>> /\ decoded' = 0 /\ readIdx' = -1 /\ cmd_type' = -1
    /\ pc' = "batchLoop"
    /\ UNCHANGED <<outb, acosArg, outn, t, mat, lo, hi, a, b, c, v, plane, angle,
                   angles, outr, outv, outm>>

\* One iteration of while (offset < size): cmd_type = commands[offset++], the switch
BatchIter ==
    /\ pc = "batchLoop"
    /\ offset < size
    /\ \E ty \in CmdTypes :
         /\ cmd_type' = ty
         /\ offset' = offset + 1 + cmdSkip(ty)
         /\ results' = [i \in 1..(result_offset + 1) |->
                          IF i = result_offset + 1 THEN cmdResult(ty) ELSE results[i]]
    /\ readIdx' = offset
    /\ decoded' = decoded + 1
    /\ result_offset' = result_offset + 1
    /\ UNCHANGED <<pc, size>>
    /\ UNCHANGED <<outb, acosArg, outn, t, mat, lo, hi, a, b, c, v, plane, angle,
                   angles, outr, outv, outm>>

\* The loop condition fails: return result_offset
BatchReturn ==
    /\ pc = "batchLoop"
    /\ ~(offset < size)
    /\ outn' = [n |-> result_offset, d |-> 1]
    /\ pc' = "batchReturn"
    /\ UNCHANGED <<outb, acosArg, size, offset, result_offset, results, decoded,
                   readIdx, cmd_type, t, mat, lo, hi, a, b, c, v, plane, angle, angles,
                   outr, outv, outm>>

\* The call returns; the next call starts from fresh operands
Return ==
    /\ pc \notin {"idle", "batchLoop"}
    /\ pc' = "idle"
    /\ a' = identity /\ b' = identity /\ c' = identity
    /\ v' = zeroVec
    /\ plane' = XY /\ angle' = 0
    /\ angles' = [i \in 1..6 |-> 0]
    /\ outr' = identity
    /\ outv' = zeroVec
    /\ outm' = MatIdentity
    /\ t' = 0
    /\ mat' = MatIdentity
    /\ lo' = zeroVec /\ hi' = zeroVec
    /\ outb' = FALSE
    /\ acosArg' = NoAcos
    /\ size' = 0 /\ offset' = 0 /\ result_offset' = 0
    /\ results' = <<>> /\ decoded' = 0 /\ readIdx' = -1 /\ cmd_type' = -1
    /\ outn' = [n |-> 0, d |-> 1]

Next ==
    \/ Rotate
    \/ ToMatrix
    \/ Multiply
    \/ PlaneRotate
    \/ EulerRotate
    \/ ComposeRotate
    \/ InverseRotate
    \/ ReverseCancel
    \/ MulAssoc
    \/ IdentityRotate
    \/ Slerp
    \/ Normalize
    \/ Normalized
    \/ Nlerp
    \/ FromAngles
    \/ MatInverse
    \/ Clamp
    \/ VecNormalized
    \/ VecNormalize
    \/ ProjectOnto
    \/ DefaultConstruct
    \/ ScaledRotate
    \/ Determinant
    \/ ReverseProduct
    \/ FfiPlaneRotate
    \/ FfiComposeRotate
    \/ SlerpBranch
    \/ IsZero
    \/ BatchCall
    \/ BatchIter
    \/ BatchReturn
    \/ Return

Spec == Init /\ [][Next]_vars

\* The loop of vib3_process_command_batch runs without waiting on anything:
\* an enabled iteration or return is eventually taken
FairSpec == Spec /\ WF_vars(BatchIter) /\ WF_vars(BatchReturn)

(***************************************************************************)
(* C1                                                                      *)
(***************************************************************************)
\* C1: for every rotor r (unit, non-unit or all-zero) and every vector v,
\* r.rotate(v) is exactly r.toMatrix() * v.
C1_RotateIsMatrixProduct ==
    pc \in {"rotate", "planeRotate", "eulerRotate"}
        => VecEq(outv, MatMulVec(toMatrix(a), v))

\* a non-unit rotor of non-zero magnitude has moved a non-zero vector
C1_Witness ==
    /\ pc = "rotate"
    /\ SumSq(a) > 0 /\ ~isNormalized(a)
    /\ ~VecEq(v, zeroVec)
    /\ ~VecEq(outv, v)

(***************************************************************************)
(* C2, C3: rotor and matrix of the same angles                             *)
(***************************************************************************)
\* C2: for each of the six planes, every angle and every vector v,
\* fromPlaneAngle(plane, angle).rotate(v) equals rotation{plane}(angle) * v.
C2_PlaneRotorMatchesPlaneMatrix ==
    pc = "planeRotate" => VecEq(outv, MatMulVec(planeRotation(plane, angle), v))

\* C3: for every six-angle set and every vector v,
\* fromEuler6(angles).rotate(v) equals rotationFromAngles(angles) * v.
C3_EulerRotorMatchesEulerMatrix ==
    pc = "eulerRotate" => VecEq(outv, MatMulVec(rotationFromAngles(angles), v))

(***************************************************************************)
(* C4: the geometric product of Cl(4,0) on the even subalgebra             *)
(***************************************************************************)
\* Basis blades in component order s, xy, xz, yz, xw, yw, zw, xyzw
Blade == <<{}, {1, 2}, {1, 3}, {2, 3}, {1, 4}, {2, 4}, {3, 4}, {1, 2, 3, 4}>>

Coef(r, i) == <<r.s, r.xy, r.xz, r.yz, r.xw, r.yw, r.zw, r.xyzw>>[i]

\* e_A e_B = BladeSign(A, B) * e_(A symmetric-difference B), from e_i e_i = 1, e_i e_j = -e_j e_i
BladeSign(A, B) ==
    IF Cardinality({p \in A \X B : p[1] > p[2]}) % 2 = 0 THEN 1 ELSE -1

SymDiff(A, B) == (A \ B) \cup (B \ A)

\* Component n of the reference product: for each i one j has e_i e_j = +-e_n
RefCoef(x, y, n) ==
    LET J(i) == CHOOSE j \in 1..8 : SymDiff(Blade[i], Blade[j]) = Blade[n]
        T(i) == BladeSign(Blade[i], Blade[J(i)]) * Coef(x, i) * Coef(y, J(i))
    IN T(1) + T(2) + T(3) + T(4) + T(5) + T(6) + T(7) + T(8)

GeometricProduct(x, y) ==
    Rotor4D(RefCoef(x, y, 1), RefCoef(x, y, 2), RefCoef(x, y, 3), RefCoef(x, y, 4),
            RefCoef(x, y, 5), RefCoef(x, y, 6), RefCoef(x, y, 7), RefCoef(x, y, 8),
            x.k * y.k)

\* C4: every component of a * b equals the component of the Cl(4,0) geometric product.
C4_ProductIsGeometricProduct ==
    pc = "multiply" => outr = GeometricProduct(a, b)

(***************************************************************************)
(* C5 .. C10                                                               *)
(***************************************************************************)
\* C5: for rotors a, b of non-zero magnitude and every vector v,
\* (a * b).rotate(v) equals a.rotate(b.rotate(v)).
C5_ComposeIsSequentialRotation ==
    (pc = "composeRotate" /\ SumSq(a) > 0 /\ SumSq(b) > 0)
        => VecEq(outv, rotate(a, rotate(b, v)))

\* C6: for every unit rotor R and every vector v, the squared length of
\* R.rotate(v) equals the squared length of v.
C6_RotationPreservesLength ==
    (pc \in {"rotate", "planeRotate", "eulerRotate"} /\ isNormalized(a))
        => RatEq(lengthSquared(outv), lengthSquared(v))

\* C7: for every rotor r of non-zero magnitude, r.toMatrix() is orthogonal
\* and has determinant exactly +1.
C7_MatrixIsRotation ==
    (pc = "toMatrix" /\ SumSq(a) > 0)
        => /\ isOrthogonal(outm)
           /\ determinant(outm).n = determinant(outm).d

\* C8: for every rotor R of non-zero magnitude and every vector v,
\* R.inverse().rotate(R.rotate(v)) equals v.
C8_InverseRoundTrip ==
    (pc = "inverseRotate" /\ SumSq(a) > 0) => VecEq(outv, v)

\* C9: for every unit rotor R (every rotor of non-zero magnitude) and every
\* vector v, (R * R.reverse()).rotate(v) equals v.
C9_ReverseCancelsSelf ==
    (pc = "reverseCancel" /\ SumSq(a) > 0) => VecEq(outv, v)

\* C10: the rotor product is associative, (a * b) * c = a * (b * c)
\* component for component.
C10_ProductAssociative ==
    pc = "mulAssoc" => RotorEq(outr, RotorMul(a, RotorMul(b, c)))

(***************************************************************************)
(* C11 .. C15: interpolation, plane isolation, identity, normalization     *)
(***************************************************************************)
\* C11: for unit rotors A and B and every probe vector v, A.slerp(B, 0).rotate(v)
\* equals A.rotate(v) and A.slerp(B, 1).rotate(v) equals B.rotate(v), in the
\* spherical branch, in the nlerp fallback and when B is negated first.
C11_SlerpEndpoints ==
    pc = "slerp" =>
        /\ t = 0 => VecEq(outv, rotate(a, v))
        /\ t = 2 => VecEq(outv, rotate(b, v))

\* the spherical branch has run at t = 1 on a negated B and the result moves v
C11_Witness ==
    /\ pc = "slerp" /\ t = 2
    /\ rotorDot(a, b).n < 0
    /\ -rotorDot(a, b).n * 10000 <= 9995 * rotorDot(a, b).d
    /\ ~RotorEq(outr, b)
    /\ ~VecEq(outv, v)

\* The two coordinate indices (0..3) of a rotation plane
planeAxes(pl) ==
    CASE pl = XY -> {0, 1}
      [] pl = XZ -> {0, 2}
      [] pl = YZ -> {1, 2}
      [] pl = XW -> {0, 3}
      [] pl = YW -> {1, 3}
      [] pl = ZW -> {2, 3}

\* Coordinate i (0..3) of p, as the numerator over p.d
coord(p, i) == <<p.x, p.y, p.z, p.w>>[i + 1]

\* C12: for every plane and angle, fromPlaneAngle(plane, angle).rotate(v) leaves
\* the two coordinates of v that are not in the plane unchanged.
C12_PlaneIsolation ==
    pc = "planeRotate" =>
        \A i \in (0..3) \ planeAxes(plane) : coord(outv, i) * v.d = coord(v, i) * outv.d

\* C13: identity().rotate(v) equals v, identity().toMatrix() is the identity
\* matrix, and fromEuler6 of six zero angles is the identity rotor and rotates
\* every v to v.
C13_IdentityNoOp ==
    /\ pc = "identityRotate" => (VecEq(outv, v) /\ outm.d > 0 /\ isIdentity(outm))
    /\ (pc = "eulerRotate" /\ \A i \in 1..6 : angles[i] = 0)
           => (VecEq(outv, v) /\ a.k > 0 /\ RotorEq(a, Rotor4D(1, 0, 0, 0, 0, 0, 0, 0, 1)))

\* the identity rotor has rotated a vector with four different components
C13_Witness ==
    /\ pc = "identityRotate"
    /\ v = Vec4(1, 2, 3, 4)
    /\ a.s = 1 /\ SumSq(a) = 1

\* C14: normalized() of a zero-magnitude rotor is the identity rotor, normalize()
\* makes a zero-magnitude rotor the identity rotor, and the state after
\* r.normalize() equals the value r.normalized() returns, for every rotor r.
C14_DegenerateNormalization ==
    /\ (pc = "normalized" /\ SumSq(a) = 0) => outr = identity
    /\ (pc = "normalize" /\ SumSq(a) = 0) => outr = identity
    /\ pc = "normalize" => (outr.k > 0 /\ RotorEq(outr, normalized(a)))

\* C15: a.nlerp(b, t) is the normalization of a + (b - a) * t: it has unit
\* magnitude, and it is the identity rotor when the interpolant is all zero.
C15_NlerpIsNormalizedInterpolant ==
    pc = "nlerp" =>
        /\ isNormalized(outr)
        /\ (\A i \in 1..8 : 2 * Coef(a, i) + (Coef(b, i) - Coef(a, i)) * t = 0)
               => outr = identity

(***************************************************************************)
(* C16 .. C20: composition order, matrix inverse, clamp, Vec4 normalization *)
(***************************************************************************)
\* The factor of plane pl: the identity when the angle is not above the threshold
matrixFactor(pl, q) == IF AboveThreshold(q) THEN planeRotation(pl, q) ELSE MatIdentity
rotorFactor(pl, q) == IF AboveThreshold(q) THEN fromPlaneAngle(pl, q) ELSE identity

\* C16: rotationFromAngles equals the left-to-right matrix product
\* rotationXY * rotationXZ * rotationYZ * rotationXW * rotationYW * rotationZW and
\* fromEuler6 the left-to-right rotor product of the six fromPlaneAngle rotors in
\* the same order, a factor whose angle is below the threshold being the identity.
C16_FixedCompositionOrder ==
    pc = "fromAngles" =>
        /\ outm.d > 0
        /\ MatEq(outm,
                 MatMul(MatMul(MatMul(MatMul(MatMul(
                     matrixFactor(XY, angles[1]), matrixFactor(XZ, angles[2])),
                     matrixFactor(YZ, angles[3])), matrixFactor(XW, angles[4])),
                     matrixFactor(YW, angles[5])), matrixFactor(ZW, angles[6])))
        /\ outr.k > 0
        /\ RotorEq(outr,
                   RotorMul(RotorMul(RotorMul(RotorMul(RotorMul(
                       rotorFactor(XY, angles[1]), rotorFactor(XZ, angles[2])),
                       rotorFactor(YZ, angles[3])), rotorFactor(XW, angles[4])),
                       rotorFactor(YW, angles[5])), rotorFactor(ZW, angles[6])))

\* three factors are skipped and three odd quarter turns that do not commute are composed
C16_Witness ==
    /\ pc = "fromAngles"
    /\ angles = <<1, 0, 1, 0, 0, 1>>
    /\ ~MatEq(outm, MatMul(rotationZW(1), MatMul(rotationYZ(1), rotationXY(1))))

\* C17: inverse() of a matrix whose determinant is below 1e-10 in absolute
\* value is exactly the identity matrix.
C17_SingularInverseIsIdentity ==
    (pc = "matInverse" /\ belowSingularEps(determinant(mat))) => outm = MatIdentity

\* a singular matrix that is neither zero() nor the identity has been inverted
C17_Witness ==
    /\ pc = "matInverse"
    /\ determinant(mat).n = 0
    /\ ~MatEq(mat, MatZero)
    /\ at(mat, 0, 0) # 0 /\ at(mat, 1, 0) # 0

\* C18: for every matrix M whose determinant is at least 1e-10 in absolute
\* value, M * M.inverse() is the identity matrix.
C18_MatrixTimesInverseIsIdentity ==
    (pc = "matInverse" /\ ~belowSingularEps(determinant(mat)))
        => (outm.d > 0 /\ MatEq(MatMul(mat, outm), MatIdentity))

\* a matrix of determinant other than 1 and -1 with an off-diagonal element has been inverted
C18_Witness ==
    /\ pc = "matInverse"
    /\ determinant(mat).n \notin {0, determinant(mat).d, -determinant(mat).d}
    /\ at(mat, 0, 1) # 0
    /\ ~MatEq(outm, mat)

\* C19: for all v, lo and hi, also where lo > hi, v.clamp(lo, hi) equals
\* max(lo, min(hi, v)) component-wise.
C19_ClampIsMaxLoOfMinHi ==
    pc = "clamp" => VecEq(outv, vecMax(lo, vecMin(hi, v)))

\* C19 as amended: on every component where lo <= hi, v.clamp(lo, hi) is lo
\* when v < lo, hi when v > hi and v otherwise (which is max(lo, min(hi, v)));
\* on every component where lo > hi it is hi.
C19_ClampComponentwise ==
    pc = "clamp" =>
        /\ outv.d > 0
        /\ \A i \in 0..3 :
              LET x == coord(v, i) * lo.d * hi.d
                  l == coord(lo, i) * v.d * hi.d
                  h == coord(hi, i) * v.d * lo.d
                  expected == IF l <= h
                              THEN (IF x < l THEN l ELSE IF x > h THEN h ELSE x)
                              ELSE h
              IN coord(outv, i) * v.d * lo.d * hi.d = expected * outv.d

\* one component has lo > hi and another has lo <= hi with v outside [lo, hi]
C19_Witness ==
    /\ pc = "clamp"
    /\ lo.x * hi.d > hi.x * lo.d
    /\ lo.y * hi.d <= hi.y * lo.d /\ v.y * hi.d > hi.y * v.d
    /\ ~VecEq(outv, v)

\* Equality of the real vectors p / sqrt(p.k) and q / sqrt(q.k)
ScaledVecEq(p, q) ==
    \A i \in 0..3 :
        /\ coord(p, i) * coord(q, i) >= 0
        /\ coord(p, i) * coord(p, i) * q.d * q.d * q.k
             = coord(q, i) * coord(q, i) * p.d * p.d * p.k

\* C20: normalized() returns the zero vector for an input of length 0 and
\* otherwise self / length, of squared length 1 and parallel to the input;
\* normalize() leaves the vector equal to what normalized() returns.
C20_VecNormalization ==
    /\ pc = "vecNormalized" =>
          /\ outv.d > 0 /\ outv.k > 0
          /\ lengthSquared(v).n = 0 => VecEq(outv, zeroVec)
          /\ lengthSquared(v).n > 0 =>
                /\ lengthSquared(outv).n = lengthSquared(outv).d * outv.k
                /\ \A i \in 0..3, j \in 0..3 :
                      coord(outv, i) * coord(v, j) = coord(outv, j) * coord(v, i)
                /\ dot(outv, v).n > 0
    /\ pc = "vecNormalize" =>
          /\ outv.d > 0 /\ outv.k > 0
          /\ ScaledVecEq(outv, vecNormalized(v))

\* a vector whose length is irrational has been normalized
C20_Witness ==
    /\ pc = "vecNormalized"
    /\ lengthSquared(v).n = 2
    /\ v.d = 2
    /\ outv.k = 2

(***************************************************************************)
(* C21 .. C30                                                              *)
(***************************************************************************)
\* C21: none of Vec4::normalized, Vec4::normalize, Vec4::projectOnto,
\* Rotor4D::normalized, Rotor4D::normalize, Rotor4D::inverse, Rotor4D::toMatrix,
\* Rotor4D::nlerp and Mat4x4::inverse divides by zero (no result has a zero
\* denominator), and on a degenerate input each returns its fallback: the zero
\* vector, the identity rotor, the identity matrix.
C21_GuardedOperationsTotal ==
    /\ pc \in {"vecNormalized", "vecNormalize"} =>
          /\ outv.d > 0 /\ outv.k > 0
          /\ lengthSquared(v).n = 0 => VecEq(outv, zeroVec)
    /\ pc = "projectOnto" =>
          /\ outv.d > 0
          /\ lengthSquared(lo).n = 0 => VecEq(outv, zeroVec)
    /\ pc \in {"normalized", "normalize", "inverseRotate"} =>
          /\ outr.k > 0
          /\ SumSq(a) = 0 => outr = identity
    /\ pc = "toMatrix" =>
          /\ outm.d > 0
          /\ SumSq(a) = 0 => outm = MatIdentity
    /\ pc = "nlerp" =>
          /\ outr.k > 0
          /\ (\A i \in 1..8 : 2 * Coef(a, i) + (Coef(b, i) - Coef(a, i)) * t = 0)
                => outr = identity
    /\ pc = "matInverse" =>
          /\ outm.d > 0
          /\ belowSingularEps(determinant(mat)) => outm = MatIdentity

\* C22: a default-constructed Mat4x4 is the identity matrix.
C22_DefaultMatrixIsIdentity ==
    pc = "defaultConstruct" => isIdentity(outm)


\* C23: for every six-angle set the rotor fromEuler6 returns is a unit rotor.
C23_EulerRotorIsUnit ==
    pc = "fromAngles" => (outr.k > 0 /\ isNormalized(outr))

\* C24: for every rotor r of non-zero magnitude and every non-zero scalar k,
\* the rotor with all eight components multiplied by k has the same toMatrix()
\* and the same rotate(v) as r.
C24_ScaleAndSignIndependent ==
    (pc = "scaledRotate" /\ SumSq(a) > 0) =>
        /\ outm.d > 0 /\ MatEq(outm, toMatrix(a))
        /\ outv.d > 0 /\ VecEq(outv, rotate(a, v))

C24_Witness ==
    /\ pc = "scaledRotate" /\ SumSq(a) > 0
    /\ a.xy # 0 /\ b.xy = -2 * a.xy
    /\ ~VecEq(outv, v)

\* The 3x3 determinant of rows 1..3 and columns c1, c2, c3 of mm
Minor3(mm, c1, c2, c3) ==
      at(mm, 1, c1) * (at(mm, 2, c2) * at(mm, 3, c3) - at(mm, 2, c3) * at(mm, 3, c2))
    - at(mm, 1, c2) * (at(mm, 2, c1) * at(mm, 3, c3) - at(mm, 2, c3) * at(mm, 3, c1))
    + at(mm, 1, c3) * (at(mm, 2, c1) * at(mm, 3, c2) - at(mm, 2, c2) * at(mm, 3, c1))

\* The determinant by cofactor expansion along row 0 (numerator over mm.d^4)
CofactorDeterminant(mm) ==
      at(mm, 0, 0) * Minor3(mm, 1, 2, 3)
    - at(mm, 0, 1) * Minor3(mm, 0, 2, 3)
    + at(mm, 0, 2) * Minor3(mm, 0, 1, 3)
    - at(mm, 0, 3) * Minor3(mm, 0, 1, 2)

\* C25: determinant() equals the first-row cofactor expansion; the
\* determinant of scale(a,b,c,d) is a*b*c*d, of zero() is 0, and of every
\* single-plane rotation matrix is 1.
C25_DeterminantIsCofactorExpansion ==
    pc = "determinant" =>
        /\ outn.d = mat.d * mat.d * mat.d * mat.d
        /\ outn.n = CofactorDeterminant(mat)
        /\ mat \in ScaleMatrices =>
              outn.n = at(mat, 0, 0) * at(mat, 1, 1) * at(mat, 2, 2) * at(mat, 3, 3)
        /\ mat = MatZero => outn.n = 0
        /\ mat \in PlaneMatrices => outn.n = outn.d

C25_Witness ==
    /\ pc = "determinant"
    /\ \A col \in 0..3 : at(mat, 0, col) # 0
    /\ mat \notin ScaleMatrices
    /\ outn.n \notin {0, outn.d}

\* C26: (a * b).reverse() equals b.reverse() * a.reverse().
C26_ReverseIsAntiAutomorphism ==
    pc = "reverseProduct" => RotorEq(outr, RotorMul(reverse(b), reverse(a)))


\* C27: the C interface and the core agree: rotating v by the rotor of
\* vib3_rotor4d_from_plane_angle(p, q) with vib3_rotor4d_rotate gives
\* fromPlaneAngle(p, q).rotate(v), and rotors composed from the same
\* plane/angle inputs with vib3_rotor4d_multiply and with operator* rotate v
\* to the same vector.
C27_FfiMatchesCore ==
    /\ pc = "ffiPlaneRotate" =>
          VecEq(outv, rotate(fromPlaneAngle(plane, angle), v))
    /\ pc = "ffiComposeRotate" =>
          VecEq(outv, rotate(RotorMul(fromPlaneAngle(plane[1], angle[1]),
                                      fromPlaneAngle(plane[2], angle[2])), v))


\* 0 <= d <= 0.9995, so that acos(d) is defined and sin(acos(d)) > 0
InAcosRange(d) == d.cls = "fin" /\ d.n >= 0 /\ d.n * 10000 <= 9995 * 4

\* C28 as stated: for all finite operands of slerp, whenever the spherical
\* branch is taken the value passed to acos satisfies 0 <= d <= 0.9995, and
\* every other input is routed to nlerp.
C28_AcosArgumentInRange ==
    pc = "slerpBranch" =>
        /\ acosArg # NoAcos => InAcosRange(acosArg)
        /\ acosArg = NoAcos <=> outb

\* C28 amended: for all finite operands of slerp whose dot product is not NaN,
\* whenever the spherical branch is taken the value passed to acos satisfies
\* 0 <= d <= 0.9995, and every other such input is routed to nlerp.
C28_AcosArgumentInRangeUnlessNaN ==
    pc = "slerpBranch" =>
        /\ (acosArg # NoAcos /\ acosArg.cls # "nan") => InAcosRange(acosArg)
        /\ acosArg = NoAcos <=> outb

\* The dot product was negative, was negated, and went to acos as 1/2
C28_Witness ==
    /\ pc = "slerpBranch"
    /\ floatNegative(floatDot(a, b, FALSE))
    /\ acosArg = Fin(2)


\* C29: with the default epsilon, isZero() is true for the exact zero vector
\* and false for every vector with a non-zero component, down to (1e-7, 0, 0, 0).
C29_IsZeroOnlyForZero ==
    pc = "isZero" => (outb <=> VecEq(v, zeroVec))


\* The result byte the type ty calls for: 1 for types 0x01..0x05, 0 otherwise
ResultFor(ty) == IF ty \in 1..5 THEN 1 ELSE 0

\* In and after the loop: every read of commands[] is below size, and there
\* is one result byte per decoded type byte
BatchInv ==
    pc \in {"batchLoop", "batchReturn"} =>
        /\ readIdx < size
        /\ Len(results) = decoded /\ result_offset = decoded
        /\ decoded > 0 => results[decoded] = ResultFor(cmd_type)
        /\ pc = "batchReturn" => outn = [n |-> Len(results), d |-> 1]

\* An iteration reads the type byte at the old offset, moves the offset
\* forward and adds the one result byte of that type, leaving the others
BatchStep ==
    (pc = "batchLoop" /\ pc' = "batchLoop") =>
        /\ offset' > offset
        /\ readIdx' = offset
        /\ results' = Append(results, ResultFor(cmd_type'))

\* C30: for every buffer size n, vib3_process_command_batch terminates (the
\* offset strictly increases on each iteration), reads the buffer only at
\* indices below n, writes exactly one result byte per decoded type byte
\* (1 for types 0x01..0x05, 0 for any other) and returns the number of result
\* bytes written.
C30_BatchTerminatesInBounds ==
    /\ []BatchInv
    /\ [][BatchStep]_vars
    /\ (pc = "batchLoop") ~> (pc = "batchReturn")

\* A call returned after a SET_GEOMETRY with its 4-byte payload, an unknown
\* type, and a SET_PARAMETER whose 12-byte payload runs past the end
C30_Witness ==
    /\ pc = "batchReturn"
    /\ results = <<1, 0, 1>>
    /\ readIdx = 6 /\ cmd_type = 1
    /\ offset = 19 /\ offset > size
    /\ outn.n = 3

====
